---- MODULE Spec2Model ----
(***************************************************************************)
(* Model of the arithmetic task orchestrator (package main).               *)
(*                                                                         *)
(* The repository holds two builds of the program:                         *)
(*   src/main.go           - handlers add / list / result / operations     *)
(*   src/unnamed/part_000  - the same, plus /tasks/execute and             *)
(*                           /tasks/result, and a result handler that      *)
(*                           takes the task's Mutex                        *)
(* The variable build records which of the two is running.                 *)
(*                                                                         *)
(* Values of type float64 are modelled as exact rationals <<n, d>> in      *)
(* lowest terms with d > 0, extended with +Inf = <<1,0>>, -Inf = <<-1,0>>  *)
(* and NaN = <<0,0>>.  Rounding and the sign of zero are not modelled.     *)
(***************************************************************************)
EXTENDS Integers, Sequences, FiniteSets, TLC

(***************************************************************************)
(* Bounds of the model.                                                    *)
(***************************************************************************)
\* longest expression drawn from all strings over Alphabet
MaxLen == 4
\* longest well-formed expression drawn from the grammar
MaxWFLen == 7
\* number of POST /tasks/add requests, each served by its own goroutine
MaxSubmit == 2
\* largest pool: startAgents(numAgents) is modelled for every numAgents in
\* 1..MaxAgents (main calls startAgents(3), main.go:192)
MaxAgents == 2
\* capacity of taskChannel: make(chan *Task, 100) (main.go:37), scaled down
\* so that a full channel is reachable
ChannelCap == 1
\* number of POST /tasks/result requests (part_000)
MaxPosts == 1

(***************************************************************************)
(* float64 arithmetic (main.go:139-148).                                   *)
(***************************************************************************)
Abs(n) == IF n < 0 THEN -n ELSE n

Sign(n) == IF n < 0 THEN -1 ELSE IF n > 0 THEN 1 ELSE 0

RECURSIVE GCD(_, _)
GCD(a, b) == IF b = 0 THEN a ELSE GCD(b, a % b)

NaN == <<0, 0>>

PosInf == <<1, 0>>

NegInf == <<-1, 0>>

IsNaN(v) == v = NaN

IsInf(v) == v[2] = 0 /\ v[1] # 0

\* the rational n/d, d # 0, in lowest terms with a positive denominator
Norm(n, d) ==
    LET s == IF d < 0 THEN -1 ELSE 1
        g == GCD(Abs(n), Abs(d))
    IN  <<(s * n) \div g, (s * d) \div g>>

FromInt(n) == <<n, 1>>

FNeg(v) == <<-v[1], v[2]>>

FAdd(a, b) ==
    IF IsNaN(a) \/ IsNaN(b) THEN NaN
    ELSE IF IsInf(a) /\ IsInf(b) THEN (IF a = b THEN a ELSE NaN)
    ELSE IF IsInf(a) THEN a
    ELSE IF IsInf(b) THEN b
    ELSE Norm(a[1] * b[2] + b[1] * a[2], a[2] * b[2])

FSub(a, b) == FAdd(a, FNeg(b))

FMul(a, b) ==
    IF IsNaN(a) \/ IsNaN(b) THEN NaN
    ELSE IF IsInf(a) \/ IsInf(b)
         THEN (IF a[1] = 0 \/ b[1] = 0 THEN NaN
               ELSE <<Sign(a[1]) * Sign(b[1]), 0>>)
    ELSE Norm(a[1] * b[1], a[2] * b[2])

FDiv(a, b) ==
    IF IsNaN(a) \/ IsNaN(b) THEN NaN
    ELSE IF IsInf(a) /\ IsInf(b) THEN NaN
    ELSE IF IsInf(a) THEN (IF b[1] < 0 THEN FNeg(a) ELSE a)
    ELSE IF IsInf(b) THEN FromInt(0)
    ELSE IF b[1] = 0 THEN (IF a[1] = 0 THEN NaN ELSE <<Sign(a[1]), 0>>)
    ELSE Norm(a[1] * b[2], a[2] * b[1])

(***************************************************************************)
(* Characters and expressions.  An expression is a sequence of one         *)
(* character strings.                                                      *)
(***************************************************************************)
Digits == {"0", "2", "3", "4"}

Operators == {"+", "-", "*", "/"}

\* "x" stands for a character that is no digit, operator or parenthesis
Alphabet == Digits \cup Operators \cup {"(", ")", " ", "x"}

\* strconv.ParseFloat(string(char), 64) with the error dropped (main.go:179)
ParseFloat(char) ==
    CASE char = "0" -> FromInt(0)
      [] char = "1" -> FromInt(1)
      [] char = "2" -> FromInt(2)
      [] char = "3" -> FromInt(3)
      [] char = "4" -> FromInt(4)
      [] char = "5" -> FromInt(5)
      [] char = "6" -> FromInt(6)
      [] char = "7" -> FromInt(7)
      [] char = "8" -> FromInt(8)
      [] char = "9" -> FromInt(9)
      [] OTHER -> FromInt(0)

\* strings.ReplaceAll(expression, " ", "") (main.go:114)
RemoveSpaces(expression) == SelectSeq(expression, LAMBDA c : c # " ")

Top(stack) == stack[Len(stack)]

Pop(stack) == SubSeq(stack, 1, Len(stack) - 1)

(***************************************************************************)
(* evaluateExpression (main.go:112-189): the two-stack evaluator.          *)
(* A state of the evaluation is the pair of stacks.  An outcome is         *)
(*   "value" - the function returns val (operandStack[0]),                 *)
(*   "panic" - operandStack[0] is read from an empty slice: index out of   *)
(*             range, a run-time panic,                                    *)
(*   "hang"  - a loop calls performOperation, which returns at once        *)
(*             without changing either stack, so the loop condition stays  *)
(*             true for ever and the function never returns.               *)
(***************************************************************************)
Stacks(operandStack, operatorStack) ==
    [operandStack |-> operandStack, operatorStack |-> operatorStack]

Outcome(kind, val) == [kind |-> kind, val |-> val]

\* the switch over operator (main.go:138-149)
Apply(operator, a, b) ==
    CASE operator = "+" -> FAdd(a, b)
      [] operator = "-" -> FSub(a, b)
      [] operator = "*" -> FMul(a, b)
      [] operator = "/" -> FDiv(a, b)
      [] OTHER -> FromInt(0)

\* the closure performOperation (main.go:121-151)
performOperation(st) ==
    IF Len(st.operandStack) < 2 \/ Len(st.operatorStack) = 0
    THEN st
    ELSE Stacks(Append(Pop(Pop(st.operandStack)),
                       Apply(Top(st.operatorStack),
                             Top(Pop(st.operandStack)),
                             Top(st.operandStack))),
                Pop(st.operatorStack))

\* the result of a loop: the stacks it leaves, or hang
Left(st) == [hang |-> FALSE, st |-> st]

Hangs(st) == [hang |-> TRUE, st |-> st]

\* for len(operatorStack) > 0 && top is one of popSet { performOperation() }
\* (main.go:159-161, 166-169, 172-175, 184-186); after is the value of the
\* stacks after the call of performOperation in the body
RECURSIVE PerformWhile(_, _)
RECURSIVE PerformAgain(_, _, _)
PerformWhile(st, popSet) ==
    IF Len(st.operatorStack) > 0 /\ Top(st.operatorStack) \in popSet
    THEN PerformAgain(st, performOperation(st), popSet)
    ELSE Left(st)

PerformAgain(st, after, popSet) ==
    IF after = st THEN Hangs(st) ELSE PerformWhile(after, popSet)

\* what the operator stack can hold
StackSymbols == Operators \cup {"("}

\* a mutation of PopsBefore: every operator has the same precedence
PopsBeforeFlat(char) == {"+", "-", "*", "/"}

\* the operators on top of the stack that are applied before char is pushed:
\* all four before + and - (main.go:166-167), * and / before * and /
\* (main.go:172-173)
PopsBefore(char) ==
    IF char \in {"+", "-"} THEN {"+", "-", "*", "/"} ELSE {"*", "/"}

\* case ')' after its loop: pop the "(" (main.go:162-164)
CloseParen(r) ==
    IF r.hang THEN r
    ELSE IF Len(r.st.operatorStack) > 0 /\ Top(r.st.operatorStack) = "("
         THEN Left(Stacks(r.st.operandStack, Pop(r.st.operatorStack)))
         ELSE r

\* case '+', '-', '*', '/' after its loop: push char (main.go:170, 176)
PushOperator(r, char) ==
    IF r.hang THEN r
    ELSE Left(Stacks(r.st.operandStack, Append(r.st.operatorStack, char)))

\* one iteration of the loop over the characters (main.go:154-182)
ScanChar(st, char) ==
    CASE char = "(" -> Left(Stacks(st.operandStack, Append(st.operatorStack, char)))
      [] char = ")" -> CloseParen(PerformWhile(st, StackSymbols \ {"("}))
      [] char \in Operators -> PushOperator(PerformWhile(st, PopsBefore(char)), char)
      [] OTHER -> Left(Stacks(Append(st.operandStack, ParseFloat(char)),
                              st.operatorStack))

\* the loop over the characters from position i on; r is the result of the
\* iteration before
RECURSIVE ScanFrom(_, _, _)
ScanFrom(expression, i, r) ==
    IF r.hang \/ i > Len(expression) THEN r
    ELSE ScanFrom(expression, i + 1, ScanChar(r.st, expression[i]))

\* the last loop (main.go:184-186)
Drain(scanned) ==
    IF scanned.hang THEN scanned ELSE PerformWhile(scanned.st, StackSymbols)

\* the stacks when the last loop is left, or hang
FinalStacks(expression) ==
    Drain(ScanFrom(RemoveSpaces(expression), 1, Left(Stacks(<<>>, <<>>))))

\* return operandStack[0] (main.go:188)
Return(final) ==
    IF final.hang THEN Outcome("hang", FromInt(0))
    ELSE IF Len(final.st.operandStack) = 0
         THEN Outcome("panic", FromInt(0))
         ELSE Outcome("value", final.st.operandStack[1])

evaluateExpression(expression) == Return(FinalStacks(expression))

(***************************************************************************)
(* Reference evaluator: recursive descent on the grammar                   *)
(*   E ::= E addop T | T     T ::= T mulop F | F     F ::= digit | "(" E ")"  *)
(* by splitting at the last operator of lowest precedence outside          *)
(* parentheses.  ok is FALSE when the string is not in the grammar.        *)
(***************************************************************************)
DecimalDigits == {"0", "1", "2", "3", "4", "5", "6", "7", "8", "9"}

ParenDepth(s, i) ==
    Cardinality({j \in 1..i : s[j] = "("}) - Cardinality({j \in 1..i : s[j] = ")"})

TopLevel(s, ops) == {i \in 1..Len(s) : s[i] \in ops /\ ParenDepth(s, i) = 0}

MaxOf(S) == CHOOSE x \in S : \A y \in S : y <= x

Parsed(ok, val) == [ok |-> ok, val |-> val]

RefApply(op, a, b) ==
    CASE op = "+" -> FAdd(a, b)
      [] op = "-" -> FSub(a, b)
      [] op = "*" -> FMul(a, b)
      [] op = "/" -> FDiv(a, b)

RECURSIVE RefParse(_)
RefParse(s) ==
    LET Split(i) ==
            LET l == RefParse(SubSeq(s, 1, i - 1))
                r == RefParse(SubSeq(s, i + 1, Len(s)))
            IN  IF l.ok /\ r.ok THEN Parsed(TRUE, RefApply(s[i], l.val, r.val))
                ELSE Parsed(FALSE, FromInt(0))
    IN  IF Len(s) = 0 THEN Parsed(FALSE, FromInt(0))
        ELSE IF \E j \in 1..Len(s) : ParenDepth(s, j) < 0 THEN Parsed(FALSE, FromInt(0))
        ELSE IF TopLevel(s, {"+", "-"}) # {} THEN Split(MaxOf(TopLevel(s, {"+", "-"})))
        ELSE IF TopLevel(s, {"*", "/"}) # {} THEN Split(MaxOf(TopLevel(s, {"*", "/"})))
        ELSE IF Len(s) = 1
             THEN (IF s[1] \in DecimalDigits THEN Parsed(TRUE, ParseFloat(s[1]))
                   ELSE Parsed(FALSE, FromInt(0)))
        ELSE IF s[1] = "(" /\ s[Len(s)] = ")" THEN RefParse(SubSeq(s, 2, Len(s) - 1))
        ELSE Parsed(FALSE, FromInt(0))

WellFormed(expression) == RefParse(RemoveSpaces(expression)).ok

RefEval(expression) == RefParse(RemoveSpaces(expression)).val

(***************************************************************************)
(* Inputs of the evaluator.                                                *)
(***************************************************************************)
RECURSIVE StringsOfLen(_)
StringsOfLen(n) ==
    IF n = 0 THEN {<<>>}
    ELSE LET shorter == StringsOfLen(n - 1)
         IN  {Append(s, c) : s \in shorter, c \in Alphabet}

\* every string over Alphabet of length at most n
StringsUpTo(n) == UNION {StringsOfLen(k) : k \in 0..n}

\* the strings of the grammar of length exactly n
RECURSIVE GrammarOfLen(_)
GrammarOfLen(n) ==
    IF n < 1 \/ n % 2 = 0 THEN {}
    ELSE IF n = 1 THEN {<<d>> : d \in Digits}
    ELSE LET inner == GrammarOfLen(n - 2)
             Joined(i) ==
                 LET ls == GrammarOfLen(i)
                     rs == GrammarOfLen(n - 1 - i)
                 IN  {l \o <<op>> \o r : l \in ls, r \in rs, op \in Operators}
         IN  {<<"(">> \o e \o <<")">> : e \in inner}
               \cup UNION {Joined(i) : i \in 1..(n - 2)}

\* the strings of the grammar of length at most n
GrammarUpTo(n) == UNION {GrammarOfLen(k) : k \in 1..n}

(***************************************************************************)
(* The server.                                                             *)
(***************************************************************************)
VARIABLES
    build,        \* which of the two programs runs
    numAgents,    \* the argument of startAgents: the size of the pool
    crashed,      \* a goroutine panicked: the process has exited
    nextTaskID,   \* var nextTaskID = 1
    tasks,        \* var tasks []*Task, a sequence of references
    heap,         \* the Task objects, by reference
    mutex,        \* Task.Mutex of each object: "free" or its holder
    taskChannel,  \* the buffered channel, a sequence of references
    addPc,        \* addTaskHandler: position of each request
    addOld,       \* addTaskHandler: the value of tasks read by append
    addResp,      \* addTaskHandler: the response written
    agPc,         \* agent goroutines: position
    agTask,       \* agent goroutines: the loop variable task
    pollPc,       \* getTaskResultHandler: position
    pollTask,     \* getTaskResultHandler: the local task
    pollResp,     \* getTaskResultHandler: the response written
    rcvPc,        \* receiveTaskResultHandler: position
    rcvTask,      \* receiveTaskResultHandler: the loop variable t
    rcvResult,    \* receiveTaskResultHandler: the decoded task.Result
    rcvCount,     \* receiveTaskResultHandler: requests served so far
    handedOut,    \* getTaskForExecutionHandler: the tasks it has sent out
    evExpr,       \* the argument of a call of evaluateExpression in isolation
    evOut         \* ... and its outcome

cfgVars == <<build, numAgents>>

addVars == <<addPc, addOld, addResp>>

agVars == <<agPc, agTask>>

pollVars == <<pollPc, pollTask, pollResp>>

rcvVars == <<rcvPc, rcvTask, rcvResult, rcvCount>>

execVars == <<handedOut>>

evVars == <<evExpr, evOut>>

serverVars == <<cfgVars, crashed, nextTaskID, tasks, heap, mutex, taskChannel,
                addVars, agVars, pollVars, rcvVars, execVars>>

vars == <<serverVars, evVars>>

Builds == {"main.go", "part_000"}

\* every request to /tasks/add allocates one Task (var task Task, main.go:41);
\* the reference of the object is the number of the request, and requests
\* are numbered in the order in which their handlers start
Requests == 1..MaxSubmit

Arrives(r) == addPc[r] = "idle" /\ \A q \in Requests : q < r => addPc[q] # "idle"

Agents == 1..MaxAgents

NoTask == 0

\* expressions the clients submit: one that evaluates to 5, one on which
\* evaluateExpression never returns, one on which it panics
ExprPool == {<<"2", "+", "3">>, <<"2", "+">>, <<>>}

\* the "result" member of a submitted JSON body (absent = 0)
SubmittedResults == {FromInt(0)}

\* the "result" member of a body posted to /tasks/result
PostedResults == {FromInt(7)}

\* the path segment after /tasks/ of a result request
PollSegments == {<<"0">>, <<"1">>, <<"2">>, <<"3">>, <<"x">>}

NoResp == [code |-> 0, kind |-> "none", val |-> FromInt(0), task |-> NoTask]

Resp(code, kind, val, task) == [code |-> code, kind |-> kind, val |-> val, task |-> task]

\* the zero value of Task, before the request is decoded
ZeroTask == [ID |-> 0, Expression |-> <<>>, Status |-> "", Result |-> FromInt(0), AgentID |-> 0]

\* strconv.Atoi (main.go:62): ok is FALSE when it returns an error
RECURSIVE AtoiDigits(_, _)
AtoiDigits(seg, acc) ==
    IF Len(seg) = 0 THEN acc
    ELSE AtoiDigits(Tail(seg), 10 * acc + ParseFloat(Head(seg))[1])

Atoi(seg) ==
    LET signed == Len(seg) > 0 /\ Head(seg) \in {"+", "-"}
        body == IF signed THEN Tail(seg) ELSE seg
    IN  IF Len(body) = 0 \/ \E i \in 1..Len(body) : body[i] \notin DecimalDigits
        THEN [ok |-> FALSE, n |-> 0]
        ELSE [ok |-> TRUE,
              n |-> IF signed /\ Head(seg) = "-" THEN -AtoiDigits(body, 0)
                    ELSE AtoiDigits(body, 0)]

ServerInit ==
    /\ build \in Builds
    /\ numAgents \in 1..MaxAgents
    /\ crashed = FALSE
    /\ nextTaskID = 1
    /\ tasks = <<>>
    /\ heap = [r \in Requests |-> ZeroTask]
    /\ mutex = [r \in Requests |-> "free"]
    /\ taskChannel = <<>>
    /\ addPc = [r \in Requests |-> "idle"]
    /\ addOld = [r \in Requests |-> <<>>]
    /\ addResp = [r \in Requests |-> NoResp]
    /\ agPc = [a \in Agents |-> "recv"]
    /\ agTask = [a \in Agents |-> NoTask]
    /\ pollPc = "idle"
    /\ pollTask = NoTask
    /\ pollResp = NoResp
    /\ rcvPc = "idle"
    /\ rcvTask = NoTask
    /\ rcvResult = FromInt(0)
    /\ rcvCount = 0
    /\ handedOut = {}

NotCalled == Outcome("none", FromInt(0))

Init ==
    /\ ServerInit
    /\ evExpr = <<>>
    /\ evOut = NotCalled

(***************************************************************************)
(* addTaskHandler (main.go:40-58, part_000:42-62).  The handler takes no   *)
(* lock, so each access to nextTaskID, tasks and taskChannel is a step of  *)
(* its own and the steps of concurrent requests interleave.                *)
(***************************************************************************)
\* a mutation of AddDecodeError: the rejected request has used an ID
AddDecodeErrorCounts(r) ==
    /\ ~crashed
    /\ Arrives(r)
    /\ nextTaskID' = nextTaskID + 1
    /\ addPc' = [addPc EXCEPT ![r] = "done"]
    /\ addResp' = [addResp EXCEPT ![r] = Resp(400, "error", FromInt(0), NoTask)]
    /\ UNCHANGED <<cfgVars, crashed, tasks, heap, mutex,
                   taskChannel, addOld, agVars, pollVars, rcvVars, execVars, evVars>>

\* Decode fails: 400, return (main.go:42-45)
AddDecodeError(r) ==
    /\ ~crashed
    /\ Arrives(r)
    /\ addPc' = [addPc EXCEPT ![r] = "done"]
    /\ addResp' = [addResp EXCEPT ![r] = Resp(400, "error", FromInt(0), NoTask)]
    /\ UNCHANGED <<cfgVars, crashed, nextTaskID, tasks, heap, mutex,
                   taskChannel, addOld, agVars, pollVars, rcvVars, execVars, evVars>>

\* Decode succeeds; task.ID = nextTaskID (main.go:41-48)
AddAssignID(r) ==
    /\ ~crashed
    /\ Arrives(r)
    /\ \E e \in ExprPool, res \in SubmittedResults :
          heap' = [heap EXCEPT ![r] = [ID |-> nextTaskID, Expression |-> e,
                                       Status |-> "", Result |-> res, AgentID |-> 0]]
    /\ addPc' = [addPc EXCEPT ![r] = "assigned"]
    /\ UNCHANGED <<cfgVars, crashed, nextTaskID, tasks, mutex, taskChannel,
                   addOld, addResp, agVars, pollVars, rcvVars, execVars, evVars>>

\* nextTaskID++ (main.go:49), an unsynchronised read-modify-write: it stores
\* one more than the value read at line 48 or than the value now in memory.
\* Then task.Status = "queued"; task.Mutex = sync.Mutex{} (main.go:50-51).
AddIncrement(r) ==
    /\ ~crashed
    /\ addPc[r] = "assigned"
    /\ nextTaskID' \in {heap[r].ID + 1, nextTaskID + 1}
    /\ heap' = [heap EXCEPT ![r].Status = "queued"]
    /\ mutex' = [mutex EXCEPT ![r] = "free"]
    /\ addPc' = [addPc EXCEPT ![r] = "incremented"]
    /\ UNCHANGED <<cfgVars, crashed, tasks, taskChannel, addOld, addResp,
                   agVars, pollVars, rcvVars, execVars, evVars>>

\* append(tasks, &task) reads the slice (main.go:52, right-hand side)
AddReadTasks(r) ==
    /\ ~crashed
    /\ addPc[r] = "incremented"
    /\ addOld' = [addOld EXCEPT ![r] = tasks]
    /\ addPc' = [addPc EXCEPT ![r] = "appending"]
    /\ UNCHANGED <<cfgVars, crashed, nextTaskID, tasks, heap, mutex,
                   taskChannel, addResp, agVars, pollVars, rcvVars, execVars, evVars>>

\* tasks = ... stores the extended slice (main.go:52, assignment)
AddWriteTasks(r) ==
    /\ ~crashed
    /\ addPc[r] = "appending"
    /\ tasks' = Append(addOld[r], r)
    /\ addOld' = [addOld EXCEPT ![r] = <<>>]
    /\ addPc' = [addPc EXCEPT ![r] = "appended"]
    /\ UNCHANGED <<cfgVars, crashed, nextTaskID, heap, mutex, taskChannel,
                   addResp, agVars, pollVars, rcvVars, execVars, evVars>>

\* a mutation of CanSend: the send never blocks
CanSendUnbounded(ch) == TRUE

\* a send on the buffered channel proceeds when the buffer has room
CanSend(ch) == Len(ch) < ChannelCap

\* taskChannel <- &task, then the response {"task_id": task.ID} (main.go:55-57)
AddSend(r) ==
    /\ ~crashed
    /\ addPc[r] = "appended"
    /\ CanSend(taskChannel)
    /\ taskChannel' = Append(taskChannel, r)
    /\ addResp' = [addResp EXCEPT ![r] = Resp(200, "task_id", FromInt(heap[r].ID), r)]
    /\ addPc' = [addPc EXCEPT ![r] = "done"]
    /\ UNCHANGED <<cfgVars, crashed, nextTaskID, tasks, heap, mutex, addOld,
                   agVars, pollVars, rcvVars, execVars, evVars>>

addTaskHandler(r) ==
    \/ AddDecodeError(r)
    \/ AddAssignID(r)
    \/ AddIncrement(r)
    \/ AddReadTasks(r)
    \/ AddWriteTasks(r)
    \/ AddSend(r)

(***************************************************************************)
(* The agents (main.go:96-110, part_000:140-158).  StartTime and EndTime   *)
(* of part_000 are written and never read; they are left out.              *)
(***************************************************************************)
\* a receive on the channel proceeds when the buffer holds a value
CanReceive(ch) == Len(ch) > 0

\* a mutation of AgentReceive: the value read stays in the channel
AgentReceivePeek(a) ==
    /\ ~crashed
    /\ agPc[a] = "recv"
    /\ CanReceive(taskChannel)
    /\ agTask' = [agTask EXCEPT ![a] = Head(taskChannel)]
    /\ agPc' = [agPc EXCEPT ![a] = "claimed"]
    /\ UNCHANGED <<cfgVars, crashed, nextTaskID, tasks, heap, mutex, taskChannel,
                   addVars, pollVars, rcvVars, execVars, evVars>>

\* for task := range taskChannel (main.go:99)
AgentReceive(a) ==
    /\ ~crashed
    /\ agPc[a] = "recv"
    /\ CanReceive(taskChannel)
    /\ agTask' = [agTask EXCEPT ![a] = Head(taskChannel)]
    /\ taskChannel' = Tail(taskChannel)
    /\ agPc' = [agPc EXCEPT ![a] = "claimed"]
    /\ UNCHANGED <<cfgVars, crashed, nextTaskID, tasks, heap, mutex, addVars,
                   pollVars, rcvVars, execVars, evVars>>

\* task.Status = "calculated" (main.go:100)
AgentMarkCalculating(a) ==
    /\ ~crashed
    /\ agPc[a] = "claimed"
    /\ heap' = [heap EXCEPT ![agTask[a]].Status = "calculated"]
    /\ agPc' = [agPc EXCEPT ![a] = "lock"]
    /\ UNCHANGED <<cfgVars, crashed, nextTaskID, tasks, mutex, taskChannel,
                   addVars, agTask, pollVars, rcvVars, execVars, evVars>>

\* a mutation of AgentLock: one lock for the whole registry
AgentLockRegistry(a) ==
    /\ ~crashed
    /\ agPc[a] = "lock"
    /\ \A r \in Requests : mutex[r] = "free"
    /\ mutex' = [mutex EXCEPT ![agTask[a]] = "agent"]
    /\ agPc' = [agPc EXCEPT ![a] = "eval"]
    /\ UNCHANGED <<cfgVars, crashed, nextTaskID, tasks, heap, taskChannel,
                   addVars, agTask, pollVars, rcvVars, execVars, evVars>>

\* task.Mutex.Lock() (main.go:102)
AgentLock(a) ==
    /\ ~crashed
    /\ agPc[a] = "lock"
    /\ mutex[agTask[a]] = "free"
    /\ mutex' = [mutex EXCEPT ![agTask[a]] = "agent"]
    /\ agPc' = [agPc EXCEPT ![a] = "eval"]
    /\ UNCHANGED <<cfgVars, crashed, nextTaskID, tasks, heap, taskChannel,
                   addVars, agTask, pollVars, rcvVars, execVars, evVars>>

\* task.Result = evaluateExpression(task.Expression) (main.go:103), when the
\* call returns.  When it never returns no step follows: the agent stays
\* here, holding the Mutex.
AgentEvaluate(a) ==
    /\ ~crashed
    /\ agPc[a] = "eval"
    /\ evaluateExpression(heap[agTask[a]].Expression).kind = "value"
    /\ heap' = [heap EXCEPT ![agTask[a]].Result =
                                evaluateExpression(heap[agTask[a]].Expression).val]
    /\ agPc' = [agPc EXCEPT ![a] = "unlock"]
    /\ UNCHANGED <<cfgVars, crashed, nextTaskID, tasks, mutex, taskChannel,
                   addVars, agTask, pollVars, rcvVars, execVars, evVars>>

\* evaluateExpression panics in the agent's goroutine; nothing recovers, so
\* the run time prints the panic and the process exits (main.go:188)
AgentPanic(a) ==
    /\ ~crashed
    /\ agPc[a] = "eval"
    /\ evaluateExpression(heap[agTask[a]].Expression).kind = "panic"
    /\ crashed' = TRUE
    /\ UNCHANGED <<cfgVars, nextTaskID, tasks, heap, mutex, taskChannel,
                   addVars, agVars, pollVars, rcvVars, execVars, evVars>>

\* task.Mutex.Unlock() (main.go:104)
AgentUnlock(a) ==
    /\ ~crashed
    /\ agPc[a] = "unlock"
    /\ mutex' = [mutex EXCEPT ![agTask[a]] = "free"]
    /\ agPc' = [agPc EXCEPT ![a] = "complete"]
    /\ UNCHANGED <<cfgVars, crashed, nextTaskID, tasks, heap, taskChannel,
                   addVars, agTask, pollVars, rcvVars, execVars, evVars>>

\* a mutation of AgentMarkCompleted: the agent goes round without writing
\* the status
AgentForgetsCompleted(a) ==
    /\ ~crashed
    /\ agPc[a] = "complete"
    /\ agPc' = [agPc EXCEPT ![a] = "recv"]
    /\ agTask' = [agTask EXCEPT ![a] = NoTask]
    /\ UNCHANGED <<cfgVars, crashed, nextTaskID, tasks, heap, mutex,
                   taskChannel, addVars, pollVars, rcvVars, execVars, evVars>>

\* task.Status = "completed" (main.go:106), and the loop goes round
AgentMarkCompleted(a) ==
    /\ ~crashed
    /\ agPc[a] = "complete"
    /\ heap' = [heap EXCEPT ![agTask[a]].Status = "completed"]
    /\ agPc' = [agPc EXCEPT ![a] = "recv"]
    /\ agTask' = [agTask EXCEPT ![a] = NoTask]
    /\ UNCHANGED <<cfgVars, crashed, nextTaskID, tasks, mutex, taskChannel,
                   addVars, pollVars, rcvVars, execVars, evVars>>

startAgents(a) ==
    \/ AgentReceive(a)
    \/ AgentMarkCalculating(a)
    \/ AgentLock(a)
    \/ AgentEvaluate(a)
    \/ AgentPanic(a)
    \/ AgentUnlock(a)
    \/ AgentMarkCompleted(a)

(***************************************************************************)
(* getTaskResultHandler (main.go:60-85, part_000:64-96).  One request at a *)
(* time; part_000 holds the task's Mutex from line 83 to the return.       *)
(***************************************************************************)
\* Atoi fails: 400 (main.go:62-66)
PollBadID(seg) ==
    /\ ~crashed
    /\ pollPc = "idle"
    /\ ~Atoi(seg).ok
    /\ pollResp' = Resp(400, "error", FromInt(0), NoTask)
    /\ UNCHANGED <<cfgVars, crashed, nextTaskID, tasks, heap, mutex,
                   taskChannel, addVars, agVars, pollPc, pollTask, rcvVars,
                   execVars, evVars>>

\* taskID < 1 || taskID > len(tasks): 404 (main.go:68-71)
PollNotFound(seg) ==
    /\ ~crashed
    /\ pollPc = "idle"
    /\ Atoi(seg).ok
    /\ Atoi(seg).n < 1 \/ Atoi(seg).n > Len(tasks)
    /\ pollResp' = Resp(404, "error", FromInt(0), NoTask)
    /\ UNCHANGED <<cfgVars, crashed, nextTaskID, tasks, heap, mutex,
                   taskChannel, addVars, agVars, pollPc, pollTask, rcvVars,
                   execVars, evVars>>

\* task := tasks[taskID-1] (main.go:74)
PollLookup(seg) ==
    /\ ~crashed
    /\ pollPc = "idle"
    /\ Atoi(seg).ok
    /\ ~(Atoi(seg).n < 1 \/ Atoi(seg).n > Len(tasks))
    /\ pollTask' = tasks[Atoi(seg).n]
    /\ pollResp' = NoResp
    /\ pollPc' = IF build = "part_000" THEN "lock" ELSE "status"
    /\ UNCHANGED <<cfgVars, crashed, nextTaskID, tasks, heap, mutex,
                   taskChannel, addVars, agVars, rcvVars, execVars, evVars>>

\* task.Mutex.Lock() (part_000:83)
PollLock ==
    /\ ~crashed
    /\ pollPc = "lock"
    /\ mutex[pollTask] = "free"
    /\ mutex' = [mutex EXCEPT ![pollTask] = "poll"]
    /\ pollPc' = "status"
    /\ UNCHANGED <<cfgVars, crashed, nextTaskID, tasks, heap, taskChannel,
                   addVars, agVars, pollTask, pollResp, rcvVars, execVars, evVars>>

\* the deferred task.Mutex.Unlock() of part_000 (part_000:84)
PollRelease == IF build = "part_000" THEN [mutex EXCEPT ![pollTask] = "free"] ELSE mutex

\* task.Status != "completed": 202 "Task is not completed yet" (main.go:77-81)
PollNotCompleted ==
    /\ ~crashed
    /\ pollPc = "status"
    /\ heap[pollTask].Status # "completed"
    /\ pollResp' = Resp(202, "not completed", FromInt(0), pollTask)
    /\ mutex' = PollRelease
    /\ pollPc' = "idle"
    /\ pollTask' = NoTask
    /\ UNCHANGED <<cfgVars, crashed, nextTaskID, tasks, heap, taskChannel,
                   addVars, agVars, rcvVars, execVars, evVars>>

\* task.Status is "completed" (main.go:77)
PollSeesCompleted ==
    /\ ~crashed
    /\ pollPc = "status"
    /\ heap[pollTask].Status = "completed"
    /\ pollPc' = "result"
    /\ UNCHANGED <<cfgVars, crashed, nextTaskID, tasks, heap, mutex,
                   taskChannel, addVars, agVars, pollTask, pollResp, rcvVars,
                   execVars, evVars>>

\* response {"result": task.Result} (main.go:83-84)
PollResult ==
    /\ ~crashed
    /\ pollPc = "result"
    /\ pollResp' = Resp(200, "result", heap[pollTask].Result, pollTask)
    /\ mutex' = PollRelease
    /\ pollPc' = "idle"
    /\ pollTask' = NoTask
    /\ UNCHANGED <<cfgVars, crashed, nextTaskID, tasks, heap, taskChannel,
                   addVars, agVars, rcvVars, execVars, evVars>>

getTaskResultHandler ==
    \/ \E seg \in PollSegments : PollBadID(seg) \/ PollNotFound(seg) \/ PollLookup(seg)
    \/ PollLock
    \/ PollNotCompleted
    \/ PollSeesCompleted
    \/ PollResult

(***************************************************************************)
(* The handlers of part_000 only.                                          *)
(***************************************************************************)
\* getTaskForExecutionHandler (part_000:108-114): task := <-taskChannel, and
\* the task is encoded into the response; no agent of this process sees it
getTaskForExecutionHandler ==
    /\ ~crashed
    /\ build = "part_000"
    /\ CanReceive(taskChannel)
    /\ handedOut' = handedOut \cup {Head(taskChannel)}
    /\ taskChannel' = Tail(taskChannel)
    /\ UNCHANGED <<cfgVars, crashed, nextTaskID, tasks, heap, mutex, addVars,
                   agVars, pollVars, rcvVars, evVars>>

\* the first task of ts whose ID is id, NoTask when there is none
\* (for _, t := range tasks { if t.ID == task.ID ... break }, part_000:126-134)
FindByID(ts, id) ==
    LET hits == {i \in 1..Len(ts) : heap[ts[i]].ID = id}
    IN  IF hits = {} THEN NoTask
        ELSE ts[CHOOSE i \in hits : \A j \in hits : i <= j]

\* receiveTaskResultHandler: Decode and the search (part_000:116-127).  A
\* body that does not decode, or names no task, changes nothing.
ReceiveFind ==
    /\ ~crashed
    /\ build = "part_000"
    /\ rcvPc = "idle"
    /\ rcvCount < MaxPosts
    /\ \E id \in Requests, res \in PostedResults :
          /\ FindByID(tasks, id) # NoTask
          /\ rcvTask' = FindByID(tasks, id)
          /\ rcvResult' = res
    /\ rcvPc' = "status"
    /\ rcvCount' = rcvCount + 1
    /\ UNCHANGED <<cfgVars, crashed, nextTaskID, tasks, heap, mutex,
                   taskChannel, addVars, agVars, pollVars, execVars, evVars>>

\* t.Status = "completed" (part_000:129)
ReceiveMarkCompleted ==
    /\ ~crashed
    /\ rcvPc = "status"
    /\ heap' = [heap EXCEPT ![rcvTask].Status = "completed"]
    /\ rcvPc' = "result"
    /\ UNCHANGED <<cfgVars, crashed, nextTaskID, tasks, mutex, taskChannel,
                   addVars, agVars, pollVars, rcvTask, rcvResult, rcvCount,
                   execVars, evVars>>

\* t.Result = task.Result (part_000:130)
ReceiveStoreResult ==
    /\ ~crashed
    /\ rcvPc = "result"
    /\ heap' = [heap EXCEPT ![rcvTask].Result = rcvResult]
    /\ rcvPc' = "idle"
    /\ rcvTask' = NoTask
    /\ rcvResult' = FromInt(0)
    /\ UNCHANGED <<cfgVars, crashed, nextTaskID, tasks, mutex, taskChannel,
                   addVars, agVars, pollVars, rcvCount, execVars, evVars>>

receiveTaskResultHandler ==
    \/ ReceiveFind
    \/ ReceiveMarkCompleted
    \/ ReceiveStoreResult

Next ==
    \/ \E r \in Requests : addTaskHandler(r)
    \/ \E a \in 1..numAgents : startAgents(a)
    \/ getTaskResultHandler
    \/ getTaskForExecutionHandler
    \/ receiveTaskResultHandler

Spec == Init /\ [][Next]_vars


(***************************************************************************)
(* evaluateExpression on its own: one call on an input drawn from          *)
(* the strings up to MaxLen and the grammar up to MaxWFLen.  The server    *)
(* does not move.                                                         *)
(***************************************************************************)
InitEval ==
    /\ ServerInit
    /\ numAgents = 1
    /\ evExpr \in StringsUpTo(MaxLen) \cup GrammarUpTo(MaxWFLen)
    /\ evOut = NotCalled

CallEvaluate ==
    /\ evOut = NotCalled
    /\ evOut' = evaluateExpression(evExpr)
    /\ UNCHANGED <<serverVars, evExpr>>

NextEval == CallEvaluate

SpecEval == InitEval /\ [][NextEval]_vars


(***************************************************************************)
(* Properties.                                                             *)
(***************************************************************************)
Submitted == {r \in Requests : addResp[r].kind = "task_id"}

\* C1: every submission receives a distinct task identifier: no two
\* requests to /tasks/add are answered with the same task_id, and no two
\* tasks carry the same ID.
C1_DistinctIDs ==
    \A r1, r2 \in Submitted : r1 # r2 => addResp[r1].val # addResp[r2].val

StatusRank(status) ==
    CASE status = "" -> 0
      [] status = "queued" -> 1
      [] status = "calculated" -> 2
      [] status = "completed" -> 3
      [] status = "failed" -> 3

\* C2: a task's status only moves forward along queued -> calculated ->
\* completed (or failed): no step of any handler or agent takes the status
\* of a task to an earlier one.
C2_StatusMonotone ==
    [][\A r \in Requests :
          StatusRank(heap'[r].Status) >= StatusRank(heap[r].Status)]_vars

\* C3: whenever a result request is answered with a result, the value is
\* the one the evaluation of the task's expression produces, never a stale
\* or default value; it is answered "not completed" otherwise.
C3_PollFaithful ==
    pollResp.kind = "result" =>
        evaluateExpression(heap[pollResp.task].Expression)
            = Outcome("value", pollResp.val)

\* all requests are answered, the channel is empty and every agent is back
\* at the receive; the tasks went through the pool and nothing came in
\* through /tasks/execute or /tasks/result
Drained ==
    /\ ~crashed
    /\ handedOut = {}
    /\ rcvCount = 0
    /\ \A r \in Requests : addPc[r] = "done"
    /\ taskChannel = <<>>
    /\ \A a \in 1..numAgents : agPc[a] = "recv"

\* C4: after K tasks are created concurrently and the channel is drained by
\* the pool, the registry holds exactly K tasks, each submitted task once,
\* every one completed or failed and carrying the result of its expression.
C4_NothingLost ==
    Drained =>
        /\ Len(tasks) = Cardinality(Submitted)
        /\ \A r \in Submitted :
              /\ Cardinality({i \in 1..Len(tasks) : tasks[i] = r}) = 1
              /\ heap[r].Status \in {"completed", "failed"}
              /\ heap[r].Status = "completed" =>
                    evaluateExpression(heap[r].Expression)
                        = Outcome("value", heap[r].Result)

\* the evaluation of expression applies an operator to fewer than two
\* operands, or reads the result from an empty stack, or leaves more than
\* one operand
Malformed(expression) ==
    LET final == FinalStacks(expression)
    IN  \/ final.hang
        \/ Len(final.st.operandStack) # 1

\* C5: on every malformed input evaluateExpression terminates with a
\* MalformedExpression failure; a single numeral returns itself.
C5_MalformedFails ==
    evOut # NotCalled =>
        /\ Malformed(evExpr) => evOut.kind = "MalformedExpression"
        /\ (Len(evExpr) = 1 /\ evExpr[1] \in DecimalDigits) =>
              evOut = Outcome("value", ParseFloat(evExpr[1]))


\* the agents are goroutines: the scheduler runs each one that can move
FairSpec == Spec /\ \A a \in Agents : WF_vars(a <= numAgents /\ startAgents(a))

\* C6: under fair scheduling every task an agent claims leaves the state
\* calculated: it becomes completed, or failed when the evaluation fails.
C6_LeavesCalculating ==
    \A r \in Requests :
        (heap[r].Status = "calculated") ~> (heap[r].Status \in {"completed", "failed"})

\* the request has its ID and its task has not left the channel yet
AwaitsDispatch(r) ==
    \/ addPc[r] \in {"assigned", "incremented", "appending", "appended"}
    \/ \E i \in 1..Len(taskChannel) : taskChannel[i] = r

\* C7: tasks are dispatched in the order of their identifiers: when an agent
\* takes a task from the channel, no task with a smaller ID still awaits
\* dispatch.
C7_DispatchInIDOrder ==
    [][\A a \in Agents :
          (agPc[a] = "recv" /\ agPc'[a] = "claimed") =>
              \A q \in Requests :
                  AwaitsDispatch(q) /\ q # agTask'[a] =>
                      ~(heap[q].ID < heap[agTask'[a]].ID)]_vars

\* C8: the channel never holds more than its capacity; a send blocks while
\* it is full and a receive blocks while it is empty.
C8_ChannelBounded ==
    /\ Len(taskChannel) <= ChannelCap
    /\ Len(taskChannel) = ChannelCap => \A r \in Requests : ~ENABLED AddSend(r)
    /\ Len(taskChannel) = 0 =>
          /\ \A a \in Agents : ~ENABLED AgentReceive(a)
          /\ ~ENABLED getTaskForExecutionHandler

\* a request waits at the send on a full channel
C8_Witness ==
    /\ Len(taskChannel) = ChannelCap
    /\ \E r \in Requests : addPc[r] = "appended"

Calculating == {r \in Requests : heap[r].Status = "calculated"}

\* C9: with numAgents agents at most numAgents tasks are under evaluation;
\* while numAgents tasks are, no agent is at the receive, so no further task
\* begins evaluation.
C9_AtMostNEvaluating ==
    /\ Cardinality(Calculating) <= numAgents
    /\ Cardinality(Calculating) = numAgents =>
          \A a \in 1..numAgents : agPc[a] # "recv" /\ agTask[a] \in Calculating

\* every agent evaluates and a further task waits in the channel
C9_Witness ==
    /\ Cardinality(Calculating) = numAgents
    /\ \A a \in 1..numAgents : agPc[a] = "eval"
    /\ Len(taskChannel) > 0

\* C10: on every well-formed expression evaluateExpression returns the
\* value of the reference evaluator (precedence, left associativity,
\* parentheses).
C10_MatchesReference ==
    (evOut # NotCalled /\ WellFormed(evExpr)) =>
        evOut = Outcome("value", RefEval(evExpr))

\* "(2+3)*4" has been evaluated to 20
C10_Witness ==
    /\ evExpr = <<"(", "2", "+", "3", ")", "*", "4">>
    /\ evOut = Outcome("value", FromInt(20))

\* the agents that hold task r: received it and not yet gone round
Holders(r) == {a \in 1..numAgents : agTask[a] = r}

\* the positions of task r in the channel
InChannel(r) == {i \in 1..Len(taskChannel) : taskChannel[i] = r}

\* the agents inside task.Mutex.Lock() ... Unlock() of task r
LockHolders(r) == {a \in 1..numAgents : agTask[a] = r /\ agPc[a] \in {"eval", "unlock"}}

\* the number of places task r is in: the channel, the agents, the tasks
\* sent out through /tasks/execute
Consumers(r) ==
    Cardinality(InChannel(r)) + Cardinality(Holders(r))
        + (IF r \in handedOut THEN 1 ELSE 0)

\* C11: a task is handed to exactly one consumer and evaluated at most
\* once: it is sent on the channel only by its own request, once; it is
\* never at two places among the channel, the agents and the tasks sent out;
\* no two agents are inside the Mutex of the same task.
C11_OneConsumer ==
    /\ [](\A r \in Requests :
             /\ Consumers(r) <= 1
             /\ Consumers(r) = 1 => addPc[r] = "done"
             /\ Cardinality(LockHolders(r)) <= 1
             /\ Cardinality(LockHolders(r)) = 1 => mutex[r] = "agent")
    /\ [][\A r \in Requests :
             Consumers(r)' > Consumers(r) =>
                 addPc[r] = "appended" /\ addPc'[r] = "done"]_vars

\* two agents evaluate at the same time, each its own task
C11_Witness ==
    /\ numAgents = 2
    /\ agPc[1] = "eval" /\ agPc[2] = "eval"
    /\ agTask[1] # agTask[2]
    /\ mutex[agTask[1]] = "agent" /\ mutex[agTask[2]] = "agent"

\* C12: a task that is calculated or completed carries the identifier of
\* the agent that received it, a number in 1..numAgents.
C12_AgentIDSet ==
    \A r \in Requests :
        heap[r].Status \in {"calculated", "completed"} =>
            heap[r].AgentID \in 1..numAgents

\* request r was answered 400: its goroutine has returned from Decode's
\* error branch
Rejected(r) == addResp[r].code = 400

\* the state the handlers share
SharedState == <<nextTaskID, tasks, heap, mutex, taskChannel>>

\* the identifier seg is below 1 or above len(tasks)
OutOfRange(seg) == Atoi(seg).ok /\ (Atoi(seg).n < 1 \/ Atoi(seg).n > Len(tasks))

\* C13: a request that fails at the transport boundary has no side effect.
\* The step that answers 400 to a submission, or 404 to a result request,
\* leaves the counter, the registry, the tasks and the channel as they were;
\* a rejected submission has created no task; a result request for an
\* identifier below 1 or above len(tasks) can only be answered 404.
C13_ErrorsHaveNoEffect ==
    /\ [](\A r \in Requests :
             Rejected(r) =>
                 /\ heap[r] = ZeroTask
                 /\ InChannel(r) = {}
                 /\ \A i \in 1..Len(tasks) : tasks[i] # r)
    /\ [](\A seg \in PollSegments :
             (~crashed /\ pollPc = "idle" /\ OutOfRange(seg)) =>
                 /\ ENABLED PollNotFound(seg)
                 /\ ~ENABLED PollLookup(seg))
    /\ [][\A r \in Requests :
             (Rejected(r)' /\ ~Rejected(r)) => UNCHANGED SharedState]_vars
    /\ [][(pollResp'.code = 404 /\ pollResp' # pollResp) =>
             UNCHANGED <<SharedState, pollPc, pollTask>>]_vars

\* one submission was rejected, another was registered, and a result
\* request for an identifier above len(tasks) was answered 404
C13_Witness ==
    /\ \E r \in Requests : Rejected(r)
    /\ Len(tasks) = 1
    /\ nextTaskID = 2
    /\ pollResp.code = 404

\* the reader sees a result: Result is not the zero value, which
\* `json:"result,omitempty"` leaves out of the encoding
ResultSet(r) == heap[r].Result # FromInt(0)

\* the task of request r can be reached through tasks or taskChannel
Published(r) == InChannel(r) # {} \/ \E i \in 1..Len(tasks) : tasks[i] = r

\* C14: no reader sees a task half updated: for every task that can be
\* read, the result is set if and only if the status is completed.
C14_NoTornTask ==
    \A r \in Requests :
        Published(r) => (ResultSet(r) <=> heap[r].Status = "completed")

\* the goroutines that hold the Mutex of task r hold it in mutex[r]
Locked(r) == mutex[r] # "free"

\* C15: every write of the status, result or agent of a task that other
\* goroutines can reach is made while the task's Mutex is held.
C15_WritesUnderMutex ==
    [][\A r \in Requests :
          (/\ addPc[r] \notin {"idle", "assigned"}
           /\ \/ heap'[r].Status # heap[r].Status
              \/ heap'[r].Result # heap[r].Result
              \/ heap'[r].AgentID # heap[r].AgentID)
          => Locked(r)]_vars

\* an agent is inside evaluateExpression
Evaluating == {a \in 1..numAgents : agPc[a] = "eval"}

\* the handler of request r can take its next step; the send alone waits,
\* and only for room in the channel
SubmissionProceeds(r) ==
    /\ Arrives(r) => ENABLED AddAssignID(r)
    /\ addPc[r] = "assigned" => ENABLED AddIncrement(r)
    /\ addPc[r] = "incremented" => ENABLED AddReadTasks(r)
    /\ addPc[r] = "appending" => ENABLED AddWriteTasks(r)
    /\ (addPc[r] = "appended" /\ Len(taskChannel) < ChannelCap) => ENABLED AddSend(r)

\* the result request can take its next step, unless it waits for the Mutex
\* of the very task an agent evaluates
PollProceeds ==
    /\ pollPc = "idle" =>
          \A seg \in PollSegments :
              ENABLED (PollBadID(seg) \/ PollNotFound(seg) \/ PollLookup(seg))
    /\ (pollPc = "lock" /\ LockHolders(pollTask) = {}) => ENABLED PollLock
    /\ pollPc = "status" => ENABLED (PollNotCompleted \/ PollSeesCompleted)
    /\ pollPc = "result" => ENABLED PollResult

\* agent b can take its next step: it receives when the channel holds a
\* task, and it locks the Mutex of its task unless a result request holds it
AgentProceeds(b) ==
    /\ (agPc[b] = "recv" /\ Len(taskChannel) > 0) => ENABLED AgentReceive(b)
    /\ agPc[b] = "claimed" => ENABLED AgentMarkCalculating(b)
    /\ (agPc[b] = "lock" /\ mutex[agTask[b]] # "poll") => ENABLED AgentLock(b)

\* C16: an evaluation blocks nothing but requests for its own task: while an
\* agent evaluates, every other agent, every submission and every result
\* request for another task can take its next step.
C16_EvaluationBlocksNoOther ==
    (~crashed /\ Evaluating # {}) =>
        /\ \A b \in 1..numAgents : AgentProceeds(b)
        /\ \A r \in Requests : SubmissionProceeds(r)
        /\ PollProceeds

\* one agent evaluates a task, another is at the receive and a different
\* task waits in the channel
C16_Witness ==
    /\ ~crashed
    /\ numAgents = 2
    /\ agPc[1] = "eval" /\ agPc[2] = "recv"
    /\ Len(taskChannel) > 0
    /\ Head(taskChannel) # agTask[1]

\* C17: the task at position i of the registry has the identifier i, so
\* tasks[taskID-1] is the task whose ID is taskID.
C17_PositionIsID ==
    \A i \in 1..Len(tasks) : heap[tasks[i]].ID = i

\* C18: completed is terminal for the result: once a result request has been
\* answered with the result of a task, no later step changes the result of
\* that task, so the task still holds the value that was returned.
C18_CompletedResultStays ==
    pollResp.kind = "result" => heap[pollResp.task].Result = pollResp.val

\* request r holds its task and is about to send it
AboutToSend(r) == addPc[r] \in {"incremented", "appending", "appended"}

\* C19: every task in the channel is in the registry, is queued and is in
\* the channel once; every queued task of the registry is in the channel or
\* with the request that is about to send it.
C19_RegistryMatchesChannel ==
    /\ \A r \in Requests :
          InChannel(r) # {} =>
              /\ \E i \in 1..Len(tasks) : tasks[i] = r
              /\ heap[r].Status = "queued"
              /\ Cardinality(InChannel(r)) = 1
    /\ \A i \in 1..Len(tasks) :
          heap[tasks[i]].Status = "queued" =>
              InChannel(tasks[i]) # {} \/ AboutToSend(tasks[i])

====
